---- MODULE Spec2Model ----
(***************************************************************************)
(* Model of TwoLayerNet (cattern/neural_net.py): construction, loss(),     *)
(* predict() and the SGD loop of train().                                  *)
(*                                                                         *)
(* Numbers.  numpy float64 values are modelled as fixed-point integers     *)
(* with FP units per 1.0; every product, quotient, exp and log is rounded  *)
(* to that resolution.  The learning rate and the epoch length are kept as *)
(* exact fractions <<numerator, denominator>>.                             *)
(* Arrays are sequences (vectors) and sequences of rows (matrices);        *)
(* class labels keep the source's 0-based values.                          *)
(***************************************************************************)
EXTENDS Integers, Sequences, FiniteSets, TLC

\* ------------------------------------------------------------------ bounds
D == 2
H == 2
C == 2
NumSeeds == 1
MaxIters == 2
MaxRows == 2

FP == 10 ^ 3

\* ------------------------------------------------------- scalar arithmetic
RECURSIVE SumTo(_, _)
SumTo(f, n) == IF n = 0 THEN 0 ELSE f[n] + SumTo(f, n - 1)

Sum(f) == SumTo(f, Len(f))

\* the array <<f[1], ..., f[n]>>, every element computed once
RECURSIVE Vec(_, _)
Vec(f, n) == IF n = 0 THEN <<>> ELSE Append(Vec(f, n - 1), f[n])

\* the n x m array of the f[i][j]
Mat(f, n, m) == Vec([i \in 1..n |-> Vec(f[i], m)], n)

RoundDiv(a, b) == (2 * a + b) \div (2 * b)

Mul(a, b) == RoundDiv(a * b, FP)

Max(a, b) == IF a >= b THEN a ELSE b

RECURSIVE GCD(_, _)
GCD(a, b) == IF b = 0 THEN a ELSE GCD(b, a % b)

RECURSIVE IsPow2(_)
IsPow2(n) == IF n = 1 THEN TRUE ELSE IF n % 2 = 1 THEN FALSE ELSE IsPow2(n \div 2)

\* e^n in FP units for n = -8 .. 6 (index n + 9)
ExpTable == <<0, 1, 2, 7, 18, 50, 135, 368, 1000, 2718, 7389, 20086, 54598, 148413, 403429>>

ExpInt(n) == IF n < -8 THEN 0 ELSE ExpTable[n + 9]

\* Taylor series of e^(r/FP), 0 <= r < FP, summed until the terms vanish
RECURSIVE ExpSeries(_, _, _)
ExpSeries(r, term, k) ==
  IF term = 0 THEN 0 ELSE term + ExpSeries(r, RoundDiv(term * r, k * FP), k + 1)

\* np.exp
Exp(x) == RoundDiv(ExpInt(x \div FP) * ExpSeries(x % FP, FP, 1), FP)

\* ln(p/FP) for FP/e <= p <= FP by 2*atanh((p-FP)/(p+FP))
RECURSIVE AtanhSeries(_, _, _)
AtanhSeries(z2, pw, k) ==
  IF pw = 0 THEN 0 ELSE RoundDiv(pw, k) + AtanhSeries(z2, Mul(pw, z2), k + 2)

LogNear1(p) ==
  LET z == RoundDiv((p - FP) * FP, p + FP)
  IN  2 * AtanhSeries(Mul(z, z), z, 1)

RECURSIVE LogReduce(_, _)
LogReduce(p, n) ==
  IF n < 6 /\ RoundDiv(p * ExpInt(n), FP) < ExpInt(-1)
  THEN LogReduce(p, n + 1)
  ELSE LogNear1(RoundDiv(p * ExpInt(n), FP)) - n * FP

\* np.log on (0, 1]; a probability below the resolution is read as 1/FP
Log(p) == LogReduce(Max(p, 1), 0)

\* ------------------------------------------------------------ array helpers
Rows(A) == Len(A)

Cols(A) == IF Len(A) = 0 THEN 0 ELSE Len(A[1])

\* np.matmul / ndarray.dot of an n x k by a k x m matrix
MatMul(A, B) ==
  Mat([i \in 1..Rows(A) |->
         [j \in 1..Cols(B) |->
            RoundDiv(Sum([l \in 1..Rows(B) |-> A[i][l] * B[l][j]]), FP)]],
      Rows(A), Cols(B))

Transpose(A) == Mat([j \in 1..Cols(A) |-> [i \in 1..Rows(A) |-> A[i][j]]], Cols(A), Rows(A))

AddRowVec(A, b) == Mat([i \in 1..Rows(A) |-> [j \in 1..Len(b) |-> A[i][j] + b[j]]], Rows(A), Len(b))

\* np.sum(A**2)
SumSq(A) == Sum([i \in 1..Rows(A) |-> RoundDiv(Sum([j \in 1..Cols(A) |-> A[i][j] * A[i][j]]), FP)])

\* np.matmul(np.ones((1,N)), A).reshape(-1)
ColSum(A, m) == Vec([j \in 1..m |-> Sum([i \in 1..Rows(A) |-> A[i][j]])], m)

\* np.argmax of one row: the first index of the maximum, 0-based
ArgMax(r) ==
  (CHOOSE j \in 1..Len(r) :
     /\ \A l \in 1..Len(r) : r[l] <= r[j]
     /\ \A l \in 1..(j - 1) : r[l] < r[j]) - 1

\* ------------------------------------------------------------ TwoLayerNet
\* the optional argument y of loss(): None, or a label vector
NoneY == [none |-> TRUE, v |-> <<>>]

Labels(v) == [none |-> FALSE, v |-> v]

\* a1 = np.maximum(0, np.matmul(X, W1) + b1)
LossHidden(P, X) ==
  LET z == AddRowVec(MatMul(X, P.W1), P.b1)
  IN  Mat([i \in 1..Rows(X) |-> [h \in 1..Len(P.b1) |-> Max(0, z[i][h])]], Rows(X), Len(P.b1))

\* scores = np.matmul(a1, W2) + b2
LossScores(P, X) == AddRowVec(MatMul(LossHidden(P, X), P.W2), P.b2)

\* softmax = np.exp(scores); softmax = [row/row.sum() for row in softmax]
Softmax(scores) ==
  LET e == Mat([i \in 1..Rows(scores) |-> [c \in 1..Cols(scores) |-> Exp(scores[i][c])]],
               Rows(scores), Cols(scores))
  IN  Mat([i \in 1..Rows(scores) |->
             [c \in 1..Cols(scores) |-> RoundDiv(e[i][c] * FP, Sum(e[i]))]],
          Rows(scores), Cols(scores))

\* column selected by softmax[np.arange(N), y]: a negative label counts from the end
LabelCol(nc, lab) == IF lab < 0 THEN lab + nc + 1 ELSE lab + 1

\* labels that numpy's fancy indexing accepts on an axis of length nc
Indexable(nc, lab) == lab >= -nc /\ lab < nc

\* loss = np.sum(losses)/N + reg * (np.sum(W1**2) + np.sum(W2**2))/2
LossValue(P, X, y, reg) ==
  LET sm == Softmax(LossScores(P, X))
      nc == Len(P.b2)
      losses == Vec([i \in 1..Rows(X) |-> -Log(sm[i][LabelCol(nc, y[i])])], Rows(X))
  IN  RoundDiv(Sum(losses), Rows(X)) + RoundDiv(Mul(reg, SumSq(P.W1) + SumSq(P.W2)), 2)

\* dscores = softmax[:,:]; dscores[np.arange(N), y] -= 1
DScores(P, X, y) ==
  LET sm == Softmax(LossScores(P, X))
      nc == Len(P.b2)
  IN  Mat([i \in 1..Rows(X) |->
             [c \in 1..nc |-> IF c = LabelCol(nc, y[i]) THEN sm[i][c] - FP ELSE sm[i][c]]],
          Rows(X), nc)

\* variant: the gate written as a1 < 0
DHiddenStrictGate(P, X, y) ==
  LET a1 == LossHidden(P, X)
      da1 == MatMul(DScores(P, X, y), Transpose(P.W2))
  IN  Mat([i \in 1..Rows(X) |-> [h \in 1..Len(P.b1) |-> IF a1[i][h] < 0 THEN 0 ELSE da1[i][h]]],
          Rows(X), Len(P.b1))

\* da1 = np.matmul(dscores, W2.T); da1[a1 <= 0] = 0
DHidden(P, X, y) ==
  LET a1 == LossHidden(P, X)
      da1 == MatMul(DScores(P, X, y), Transpose(P.W2))
  IN  Mat([i \in 1..Rows(X) |-> [h \in 1..Len(P.b1) |-> IF a1[i][h] <= 0 THEN 0 ELSE da1[i][h]]],
          Rows(X), Len(P.b1))

\* grads = {'W1': dW1, 'b1': db1, 'W2': dW2, 'b2': db2}
LossGrads(P, X, y, reg) ==
  LET N == Rows(X)
      a1 == LossHidden(P, X)
      dscores == DScores(P, X, y)
      da1 == DHidden(P, X, y)
      dW2 == MatMul(Transpose(a1), dscores)
      dW1 == MatMul(Transpose(X), da1)
      db2 == ColSum(dscores, Len(P.b2))
      db1 == ColSum(da1, Len(P.b1))
  IN  [W1 |-> Mat([d \in 1..Rows(P.W1) |-> [h \in 1..Len(P.b1) |->
                     RoundDiv(dW1[d][h], N) + Mul(reg, P.W1[d][h])]], Rows(P.W1), Len(P.b1)),
       b1 |-> Vec([h \in 1..Len(P.b1) |-> RoundDiv(db1[h], N)], Len(P.b1)),
       W2 |-> Mat([h \in 1..Rows(P.W2) |-> [c \in 1..Len(P.b2) |->
                     RoundDiv(dW2[h][c], N) + Mul(reg, P.W2[h][c])]], Rows(P.W2), Len(P.b2)),
       b2 |-> Vec([c \in 1..Len(P.b2) |-> RoundDiv(db2[c], N)], Len(P.b2))]

\* variant: without y the scores come back paired with an empty grads dictionary
lossAlwaysPair(P, X, y, reg) ==
  IF Cols(X) # Rows(P.W1)
  THEN [kind |-> "ValueError", fwd |-> FALSE, val |-> <<>>]
  ELSE IF y.none
  THEN [kind |-> "pair", fwd |-> TRUE, val |-> [loss |-> LossScores(P, X), grads |-> <<>>]]
  ELSE IF \E i \in 1..Rows(X) : ~Indexable(Len(P.b2), y.v[i])
  THEN [kind |-> "IndexError", fwd |-> TRUE, val |-> <<>>]
  ELSE [kind |-> "pair", fwd |-> TRUE,
        val |-> [loss |-> LossValue(P, X, y.v, reg), grads |-> LossGrads(P, X, y.v, reg)]]

\* loss(self, X, y, reg): what the call returns or raises; fwd tells whether
\* the forward pass (both matmuls) had been carried out by then
loss(P, X, y, reg) ==
  IF Cols(X) # Rows(P.W1)
  THEN [kind |-> "ValueError", fwd |-> FALSE, val |-> <<>>]
  ELSE IF y.none
  THEN [kind |-> "scores", fwd |-> TRUE, val |-> LossScores(P, X)]
  ELSE IF \E i \in 1..Rows(X) : ~Indexable(Len(P.b2), y.v[i])
  THEN [kind |-> "IndexError", fwd |-> TRUE, val |-> <<>>]
  ELSE [kind |-> "pair", fwd |-> TRUE,
        val |-> [loss |-> LossValue(P, X, y.v, reg), grads |-> LossGrads(P, X, y.v, reg)]]

\* variant: the ReLU left out of predict's own forward pass
predictNoRelu(P, X) ==
  IF Cols(X) # Rows(P.W1)
  THEN [kind |-> "ValueError", fwd |-> FALSE, val |-> <<>>]
  ELSE
    LET a1 == AddRowVec(MatMul(X, P.W1), P.b1)
        scores == AddRowVec(MatMul(a1, P.W2), P.b2)
    IN  [kind |-> "labels", fwd |-> TRUE, val |-> Vec([i \in 1..Rows(X) |-> ArgMax(scores[i])], Rows(X))]

\* predict(self, X): a1, scores, np.argmax(scores, axis=1)
predict(P, X) ==
  IF Cols(X) # Rows(P.W1)
  THEN [kind |-> "ValueError", fwd |-> FALSE, val |-> <<>>]
  ELSE
    LET z == AddRowVec(MatMul(X, P.W1), P.b1)
        a1 == Mat([i \in 1..Rows(X) |-> [h \in 1..Len(P.b1) |-> Max(0, z[i][h])]],
                  Rows(X), Len(P.b1))
        scores == AddRowVec(MatMul(a1, P.W2), P.b2)
    IN  [kind |-> "labels", fwd |-> TRUE, val |-> Vec([i \in 1..Rows(X) |-> ArgMax(scores[i])], Rows(X))]

\* --------------------------------------------------------------- inputs
\* the k-th draw of np.random.randn under a given seed
RandN(seed, k) == <<FP, -(FP \div 2), FP \div 2, -FP, FP \div 4>>[((seed * 3 + k * 2 + 3) % 5) + 1]

\* std passed to the constructor
Std == FP

\* caller-supplied data: feature d of sample i, and its label
Feature(i, d) == (((i * i + i * d + d) % 5) - 2) * (FP \div 2)

Sample(i, w) == [d \in 1..w |-> Feature(i, d)]

LabelOf(i) == (i - 1) % C

Data(n, w) == [i \in 1..n |-> Sample(i, w)]

DataLabels(n) == [i \in 1..n |-> LabelOf(i)]

\* batches handed to loss() and predict(): well-shaped ones and one whose
\* feature dimension is D + 1
CallBatches == {Data(n, D) : n \in 1..MaxRows} \cup {Data(1, D + 1)}

\* the labels of the first n samples, and the same with the last one replaced
\* by a label that may lie outside 0 .. C-1
CallLabels(n) ==
  {NoneY} \cup {Labels([DataLabels(n) EXCEPT ![n] = lab]) : lab \in {-1, LabelOf(n), C}}

Regs == {0, FP \div 10}

\* num_train and batch_size handed to train(): sizes that divide, that do
\* not divide, a batch larger than the training set, and unusable sizes
TrainSizes == 1..3

BatchSizes == -1..2

\* reg handed to train()
TrainRegs == {FP \div 10}

LearningRates == {<<1, 2>>}

Decays == {<<1, 2>>}

NoCall == [op |-> "init", X |-> <<>>, y |-> NoneY, reg |-> 0, X_val |-> <<>>, y_val |-> <<>>,
           learning_rate |-> <<0, 1>>, learning_rate_decay |-> <<0, 1>>,
           num_iters |-> 0, batch_size |-> 0]

NoRet == [op |-> "init", kind |-> "none", fwd |-> FALSE, val |-> <<>>]

NoParams == [W1 |-> <<>>, b1 |-> <<>>, W2 |-> <<>>, b2 |-> <<>>]

NoBatch == [X |-> <<>>, y |-> <<>>]

\* ---------------------------------------------------------------- state
VARIABLES params, pc, call, ret, trained, entry, pre,
          iterations_per_epoch, learning_rate, it, batch, grads,
          loss_history, train_acc_history, val_acc_history

vars == <<params, pc, call, ret, trained, entry, pre,
          iterations_per_epoch, learning_rate, it, batch, grads,
          loss_history, train_acc_history, val_acc_history>>

locals == <<iterations_per_epoch, learning_rate, it, batch, grads,
            loss_history, train_acc_history, val_acc_history, pre>>

\* __init__(self, input_size, hidden_size, output_size, std)
Construct(seed) ==
  [W1 |-> [i \in 1..D |-> [j \in 1..H |-> Mul(Std, RandN(seed, (i - 1) * H + j))]],
   b1 |-> [j \in 1..H |-> 0],
   W2 |-> [i \in 1..H |-> [j \in 1..C |-> Mul(Std, RandN(seed, D * H + (i - 1) * C + j))]],
   b2 |-> [j \in 1..C |-> 0]]

\* the locals of train() hold nothing outside a call
NoLocals ==
  /\ iterations_per_epoch = <<0, 1>>
  /\ learning_rate = <<0, 1>>
  /\ it = 0
  /\ batch = NoBatch
  /\ grads = NoParams
  /\ loss_history = <<>>
  /\ train_acc_history = <<>>
  /\ val_acc_history = <<>>
  /\ pre = [params |-> NoParams, learning_rate |-> <<0, 1>>]

Init ==
  /\ \E seed \in 1..NumSeeds : params = Construct(seed)
  /\ pc = "idle"
  /\ call = NoCall
  /\ ret = NoRet
  /\ trained = FALSE
  /\ entry = NoParams
  /\ NoLocals

\* ------------------------------------------------------- loss(), predict()
\* variant: dW1 aliases W1, so "dW1 += reg * W1" writes into the parameters
CallLossAliased ==
  /\ pc = "idle"
  /\ \E X \in CallBatches, reg \in Regs : \E y \in CallLabels(Rows(X)) :
       /\ call' = [NoCall EXCEPT !.op = "loss", !.X = X, !.y = y, !.reg = reg]
       /\ ret' = [op |-> "loss"] @@ loss(params, X, y, reg)
       /\ params' = IF ret'.kind = "pair" THEN [params EXCEPT !.W1 = ret'.val.grads.W1]
                                           ELSE params
  /\ UNCHANGED <<pc, trained, entry, locals>>

CallLoss ==
  /\ pc = "idle"
  /\ \E X \in CallBatches, reg \in Regs : \E y \in CallLabels(Rows(X)) :
       /\ call' = [NoCall EXCEPT !.op = "loss", !.X = X, !.y = y, !.reg = reg]
       /\ ret' = [op |-> "loss"] @@ loss(params, X, y, reg)
  /\ UNCHANGED <<params, pc, trained, entry, locals>>

CallPredict ==
  /\ pc = "idle"
  /\ \E X \in CallBatches :
       /\ call' = [NoCall EXCEPT !.op = "predict", !.X = X]
       /\ ret' = [op |-> "predict"] @@ predict(params, X)
  /\ UNCHANGED <<params, pc, trained, entry, locals>>

\* ----------------------------------------------------------------- train()
\* iterations_per_epoch = max(num_train / batch_size, 1): "/" is true division,
\* so the value is the float num_train / batch_size whenever that is >= 1
EpochLength(num_train, batch_size) ==
  IF batch_size > 0 /\ num_train >= batch_size THEN <<num_train, batch_size>> ELSE <<1, 1>>

\* it % iterations_per_epoch == 0 on float64: a quotient n/b whose reduced
\* denominator is a power of two is exact, and `it` is a multiple of it iff
\* it*b is a multiple of n; any other quotient is rounded to a float whose
\* only small integer multiple is 0
IsEpochBoundary(i, ipe) ==
  LET n == ipe[1]
      b == ipe[2]
  IN  IF IsPow2(b \div GCD(n, b)) THEN (i * b) % n = 0 ELSE i = 0

\* (self.predict(X) == y).mean(), as <<number of hits, number of samples>>
Accuracy(P, X, y) ==
  LET y_pred == predict(P, X).val
  IN  <<Cardinality({i \in 1..Rows(X) : y_pred[i] = y[i]}), Rows(X)>>

\* self.params[k] -= learning_rate * grads[k], for k = W1, W2, b1, b2
Scale(lr, g) == RoundDiv(lr[1] * g, lr[2])

SGDStep(P, lr, g) ==
  [W1 |-> Mat([i \in 1..Rows(P.W1) |-> [j \in 1..Cols(P.W1) |-> P.W1[i][j] - Scale(lr, g.W1[i][j])]],
              Rows(P.W1), Cols(P.W1)),
   W2 |-> Mat([i \in 1..Rows(P.W2) |-> [j \in 1..Cols(P.W2) |-> P.W2[i][j] - Scale(lr, g.W2[i][j])]],
              Rows(P.W2), Cols(P.W2)),
   b1 |-> Vec([j \in 1..Len(P.b1) |-> P.b1[j] - Scale(lr, g.b1[j])], Len(P.b1)),
   b2 |-> Vec([j \in 1..Len(P.b2) |-> P.b2[j] - Scale(lr, g.b2[j])], Len(P.b2))]

\* learning_rate = learning_rate * learning_rate_decay
Decay(lr, decay) == <<lr[1] * decay[1], lr[2] * decay[2]>>

Histories ==
  [loss_history |-> loss_history, train_acc_history |-> train_acc_history,
   val_acc_history |-> val_acc_history]

\* an exception leaves train(): the locals are gone, the parameters stay
Raise(kind) ==
  /\ ret' = [op |-> "train", kind |-> kind, fwd |-> FALSE, val |-> <<>>]
  /\ pc' = "idle"
  /\ iterations_per_epoch' = <<0, 1>>
  /\ learning_rate' = <<0, 1>>
  /\ it' = 0
  /\ batch' = NoBatch
  /\ grads' = NoParams
  /\ loss_history' = <<>>
  /\ train_acc_history' = <<>>
  /\ val_acc_history' = <<>>
  /\ pre' = [params |-> NoParams, learning_rate |-> <<0, 1>>]

TrainArgs(n, lr, decay, reg, num_iters, batch_size) ==
  [op |-> "train", X |-> Data(n, D), y |-> Labels(DataLabels(n)), reg |-> reg,
   X_val |-> Data(MaxRows, D), y_val |-> DataLabels(MaxRows),
   learning_rate |-> lr, learning_rate_decay |-> decay,
   num_iters |-> num_iters, batch_size |-> batch_size]

\* entry of train() up to the for statement
CallTrain ==
  /\ pc = "idle"
  /\ ~trained
  /\ trained' = TRUE
  /\ entry' = params
  /\ \E n \in TrainSizes, lr \in LearningRates, decay \in Decays, reg \in TrainRegs,
        num_iters \in -1..MaxIters, batch_size \in BatchSizes :
       /\ call' = TrainArgs(n, lr, decay, reg, num_iters, batch_size)
       /\ IF batch_size = 0
          THEN Raise("ZeroDivisionError")
          ELSE /\ iterations_per_epoch' = EpochLength(n, batch_size)
               /\ learning_rate' = lr
               /\ loss_history' = <<>>
               /\ train_acc_history' = <<>>
               /\ val_acc_history' = <<>>
               /\ it' = 0
               /\ pc' = "for"
               /\ ret' = NoRet
               /\ UNCHANGED <<batch, grads, pre>>
  /\ UNCHANGED params

\* for it in range(num_iters): next iteration; X_batch = None; y_batch = None
ForNext ==
  /\ pc = "for"
  /\ it < call.num_iters
  /\ pc' = "choice"
  /\ batch' = NoBatch
  /\ pre' = [params |-> params, learning_rate |-> learning_rate]
  /\ UNCHANGED <<params, call, ret, trained, entry, iterations_per_epoch, learning_rate, it,
                 grads, loss_history, train_acc_history, val_acc_history>>

\* range exhausted: return the three histories
TrainReturn ==
  /\ pc = "for"
  /\ it >= call.num_iters
  /\ ret' = [op |-> "train", kind |-> "histories", fwd |-> FALSE, val |-> Histories]
  /\ pc' = "idle"
  /\ iterations_per_epoch' = <<0, 1>>
  /\ learning_rate' = <<0, 1>>
  /\ it' = 0
  /\ batch' = NoBatch
  /\ grads' = NoParams
  /\ loss_history' = <<>>
  /\ train_acc_history' = <<>>
  /\ val_acc_history' = <<>>
  /\ pre' = [params |-> NoParams, learning_rate |-> <<0, 1>>]
  /\ UNCHANGED <<params, call, trained, entry>>

\* idx = np.random.choice(num_train, batch_size); X_batch, y_batch = X[idx], y[idx]
Choice ==
  /\ pc = "choice"
  /\ call.batch_size >= 0
  /\ \E idx \in [1..call.batch_size -> 1..Rows(call.X)] :
       batch' = [X |-> [k \in 1..call.batch_size |-> call.X[idx[k]]],
                 y |-> [k \in 1..call.batch_size |-> call.y.v[idx[k]]]]
  /\ pc' = "loss"
  /\ UNCHANGED <<params, call, ret, trained, entry, pre, iterations_per_epoch, learning_rate,
                 it, grads, loss_history, train_acc_history, val_acc_history>>

\* np.random.choice rejects a negative size
ChoiceRaise ==
  /\ pc = "choice"
  /\ call.batch_size < 0
  /\ Raise("ValueError")
  /\ UNCHANGED <<params, call, trained, entry>>

\* variant: the loss is not appended
LossStepNoAppend ==
  /\ pc = "loss"
  /\ LET r == loss(params, batch.X, Labels(batch.y), call.reg)
     IN  IF r.kind = "pair"
         THEN /\ grads' = r.val.grads
              /\ pc' = "sgd"
              /\ UNCHANGED <<ret, pre, iterations_per_epoch, learning_rate, it, batch,
                             loss_history, train_acc_history, val_acc_history>>
         ELSE Raise(r.kind)
  /\ UNCHANGED <<params, call, trained, entry>>

\* loss, grads = self.loss(X_batch, y=y_batch, reg=reg); loss_history.append(loss)
LossStep ==
  /\ pc = "loss"
  /\ LET r == loss(params, batch.X, Labels(batch.y), call.reg)
     IN  IF r.kind = "pair"
         THEN /\ grads' = r.val.grads
              /\ loss_history' = Append(loss_history, r.val.loss)
              /\ pc' = "sgd"
              /\ UNCHANGED <<ret, pre, iterations_per_epoch, learning_rate, it, batch,
                             train_acc_history, val_acc_history>>
         ELSE Raise(r.kind)
  /\ UNCHANGED <<params, call, trained, entry>>

\* variant: the update takes the rate after this iteration's decay
UpdateWithDecayedRate ==
  /\ pc = "sgd"
  /\ params' = SGDStep(params, Decay(learning_rate, call.learning_rate_decay), grads)
  /\ pc' = "epoch"
  /\ UNCHANGED <<call, ret, trained, entry, pre, iterations_per_epoch, learning_rate, it,
                 batch, grads, loss_history, train_acc_history, val_acc_history>>

\* the four in-place updates of self.params
Update ==
  /\ pc = "sgd"
  /\ params' = SGDStep(params, learning_rate, grads)
  /\ pc' = "epoch"
  /\ UNCHANGED <<call, ret, trained, entry, pre, iterations_per_epoch, learning_rate, it,
                 batch, grads, loss_history, train_acc_history, val_acc_history>>

\* if it % iterations_per_epoch == 0: record both accuracies, decay the rate
EpochEnd ==
  /\ pc = "epoch"
  /\ IsEpochBoundary(it, iterations_per_epoch)
  /\ train_acc_history' = Append(train_acc_history, Accuracy(params, batch.X, batch.y))
  /\ val_acc_history' = Append(val_acc_history, Accuracy(params, call.X_val, call.y_val))
  /\ learning_rate' = Decay(learning_rate, call.learning_rate_decay)
  /\ it' = it + 1
  /\ pc' = "for"
  /\ UNCHANGED <<params, call, ret, trained, entry, pre, iterations_per_epoch, batch, grads,
                 loss_history>>

\* the test fails: on to the next value of the range
EpochSkip ==
  /\ pc = "epoch"
  /\ ~IsEpochBoundary(it, iterations_per_epoch)
  /\ it' = it + 1
  /\ pc' = "for"
  /\ UNCHANGED <<params, call, ret, trained, entry, pre, iterations_per_epoch, learning_rate,
                 batch, grads, loss_history, train_acc_history, val_acc_history>>

TrainStep == ForNext \/ TrainReturn \/ Choice \/ ChoiceRaise \/ LossStep \/ Update
               \/ EpochEnd \/ EpochSkip

Next == CallLoss \/ CallPredict \/ CallTrain \/ TrainStep

Spec == Init /\ [][Next]_vars

\* ================================================================ claims
TrainReturned == pc = "idle" /\ call.op = "train" /\ ret.op = "train"

\* the epoch length the specification names: max(1, floor(num_train / batch_size))
FloorEpoch == IF call.batch_size >= 1 THEN Max(1, Rows(call.X) \div call.batch_size) ELSE 1

SameFraction(a, b) == a[1] * b[2] = b[1] * a[2]

RECURSIVE Decayed(_, _, _)
Decayed(lr, decay, k) == IF k = 0 THEN lr ELSE Decayed(Decay(lr, decay), decay, k - 1)

\* the epoch-boundary step as a whole: one train accuracy, one validation
\* accuracy, one decay of the learning rate
BoundaryFired ==
  /\ Len(train_acc_history') = Len(train_acc_history) + 1
  /\ Len(val_acc_history') = Len(val_acc_history) + 1
  /\ learning_rate' = Decay(learning_rate, call.learning_rate_decay)

\* C1: in every iteration `it` of train() the epoch-boundary step fires if and
\* only if `it` is a multiple of max(1, floor(num_train / batch_size)).
C1_BoundaryIffMultipleOfFloor ==
  [][(pc = "epoch" /\ pc' = "for") => (BoundaryFired <=> it % FloorEpoch = 0)]_vars

\* C2: for num_iters >= 0 (and a usable batch size) train() comes to an end
\* (every step of it lowers a non-negative rank), the loop body has run
\* exactly num_iters times when it returns, every iteration has appended
\* exactly one loss, and the returned loss_history has num_iters entries.
C2_LoopCount ==
  /\ (pc \in {"for", "choice", "loss"} => Len(loss_history) = it)
  /\ (pc \in {"sgd", "epoch"} => Len(loss_history) = it + 1)
  /\ (pc # "idle" /\ call.num_iters >= 0 => it <= call.num_iters)
  /\ (pc \in {"choice", "loss", "sgd", "epoch"} => it < call.num_iters)
  /\ (TrainReturned /\ call.num_iters >= 0 /\ call.batch_size >= 1 =>
        /\ ret.kind = "histories"
        /\ DOMAIN ret.val = {"loss_history", "train_acc_history", "val_acc_history"}
        /\ Len(ret.val.loss_history) = call.num_iters)

\* what is left of a train() call: whole iterations, then statements of the
\* current one
Rank ==
  IF pc = "idle" THEN 0
  ELSE (Max(call.num_iters, 0) - it) * 5
         + (CASE pc = "for" -> 5 [] pc = "choice" -> 4 [] pc = "loss" -> 3
              [] pc = "sgd" -> 2 [] pc = "epoch" -> 1)

C2_TrainTerminates ==
  [][C2_LoopCount' /\ Rank' >= 0 /\ (pc # "idle" => Rank' < Rank)]_vars

C2_Witness ==
  /\ TrainReturned
  /\ call.num_iters = MaxIters
  /\ ret.kind = "histories"
  /\ Len(ret.val.loss_history) = MaxIters

\* C3: once k epochs of max(1, floor(num_train / batch_size)) iterations have
\* been completed, the learning rate the next update uses is
\* learning_rate * learning_rate_decay^k.
C3_RateAfterEpochs ==
  (pc = "for" /\ call.batch_size >= 1 /\ it % FloorEpoch = 0) =>
     SameFraction(learning_rate,
                  Decayed(call.learning_rate, call.learning_rate_decay, it \div FloorEpoch))

BadBatch ==
  \/ Cols(call.X) # D
  \/ ~call.y.none /\ \E i \in 1..Rows(call.X) : call.y.v[i] \notin 0..(C - 1)

\* C4: a loss() call with a label outside [0, C) or a feature dimension other
\* than D raises before the forward pass is carried out and returns no result.
C4_BadBatchRaisesEarly ==
  (ret.op = "loss" /\ BadBatch) => (ret.kind \in {"ValueError", "IndexError"} /\ ~ret.fwd)

\* C5: train() with num_iters <= 0 or batch_size <= 0 never returns histories
\* and fails before any parameter update.
C5_BadConfigRaises ==
  (TrainReturned /\ (call.num_iters <= 0 \/ call.batch_size <= 0)) =>
     (ret.kind # "histories" /\ params = entry)

ShapeOK(P) ==
  /\ Len(P.W1) = D /\ \A i \in 1..D : Len(P.W1[i]) = H
  /\ Len(P.b1) = H
  /\ Len(P.W2) = H /\ \A i \in 1..H : Len(P.W2[i]) = C
  /\ Len(P.b2) = C

\* C6: only the gradient-update step of train() changes the parameters (no
\* loss() or predict() call does), and the update keeps the four shapes.
C6_OnlyUpdateWrites ==
  [][/\ (params' # params => pc = "sgd" /\ pc' = "epoch")
     /\ (pc = "idle" /\ pc' = "idle" => params' = params)
     /\ ShapeOK(params')]_vars

C6_Witness ==
  /\ pc = "idle"
  /\ ret.op \in {"loss", "predict"}
  /\ trained
  /\ params # entry
  /\ ShapeOK(params)

\* C7: predict(X) returns one label per row of X, each in [0, C), equal to the
\* position of the row's maximum in the scores that loss(X, y=None) returns.
C7_PredictIsArgmaxOfScores ==
  (ret.op = "predict" /\ Cols(call.X) = D) =>
     /\ ret.kind = "labels"
     /\ Len(ret.val) = Rows(call.X)
     /\ \A i \in 1..Rows(call.X) :
          /\ ret.val[i] \in 0..(C - 1)
          /\ ret.val[i] = ArgMax(loss(params, call.X, NoneY, 0).val[i])

C7_Witness ==
  /\ ret.op = "predict"
  /\ ret.kind = "labels"
  /\ Rows(call.X) = MaxRows
  /\ Len(ret.val) = MaxRows
  /\ \E i, j \in 1..MaxRows : ret.val[i] # ret.val[j]

\* C8: without y, loss() returns the N x C scores and nothing else, whatever
\* reg is; with y it returns a scalar loss and gradients keyed W1, b1, W2, b2.
C8_ReturnShape ==
  (ret.op = "loss" /\ Cols(call.X) = D) =>
     /\ call.y.none =>
          /\ ret.kind = "scores"
          /\ Len(ret.val) = Rows(call.X)
          /\ \A i \in 1..Rows(call.X) : Len(ret.val[i]) = C
     /\ (~call.y.none /\ ret.kind \notin {"ValueError", "IndexError"}) =>
          /\ ret.kind = "pair"
          /\ DOMAIN ret.val = {"loss", "grads"}
          /\ ret.val.loss \in Int
          /\ DOMAIN ret.val.grads = {"W1", "b1", "W2", "b2"}
     /\ (~call.y.none /\ \A i \in 1..Rows(call.X) : call.y.v[i] \in 0..(C - 1)) =>
          ret.kind = "pair"

C8_Witness ==
  /\ ret.op = "loss"
  /\ call.y.none
  /\ call.reg = 0
  /\ ret.kind = "scores"
  /\ Rows(call.X) = MaxRows

Last(q) == q[Len(q)]

\* p - learning rate * g
Descend(p, lr, g) == p - RoundDiv(lr[1] * g, lr[2])

UpdatedFrom(P, Q, lr, g) ==
  /\ \A i \in 1..D : \A j \in 1..H : P.W1[i][j] = Descend(Q.W1[i][j], lr, g.W1[i][j])
  /\ \A i \in 1..H : \A j \in 1..C : P.W2[i][j] = Descend(Q.W2[i][j], lr, g.W2[i][j])
  /\ \A j \in 1..H : P.b1[j] = Descend(Q.b1[j], lr, g.b1[j])
  /\ \A j \in 1..C : P.b2[j] = Descend(Q.b2[j], lr, g.b2[j])

\* the iteration's gradients, taken at the parameters the iteration started with
IterGrads == LossGrads(pre.params, batch.X, batch.y, call.reg)

\* C9: in each iteration the loss and gradients are taken at the parameters of
\* the iteration's start and the loss is appended; then all four parameters
\* go down by (rate before this iteration's decay) x gradient; only then, on
\* an epoch boundary, the accuracies are taken with the updated parameters
\* and the rate decays.
C9_Order ==
  [][/\ (pc' = "sgd" =>
           /\ params' = pre'.params
           /\ grads' = LossGrads(pre'.params, batch'.X, batch'.y, call'.reg)
           /\ Len(loss_history') = it' + 1
           /\ Last(loss_history') = LossValue(pre'.params, batch'.X, batch'.y, call'.reg)
           /\ learning_rate' = pre'.learning_rate)
     /\ (pc' = "epoch" =>
           /\ UpdatedFrom(params', pre'.params, pre'.learning_rate, grads')
           /\ learning_rate' = pre'.learning_rate
           /\ Len(train_acc_history') = Len(val_acc_history'))
     /\ (pc = "epoch" /\ pc' = "for" /\ Len(train_acc_history') # Len(train_acc_history) =>
           /\ UpdatedFrom(params', pre.params, pre.learning_rate, IterGrads)
           /\ train_acc_history' =
                Append(train_acc_history, Accuracy(params', batch.X, batch.y))
           /\ val_acc_history' =
                Append(val_acc_history, Accuracy(params', call.X_val, call.y_val))
           /\ learning_rate' = Decay(pre.learning_rate, call.learning_rate_decay))]_vars

C9_Witness ==
  /\ pc = "for"
  /\ it = 2
  /\ Len(train_acc_history) = 2
  /\ params # entry
  /\ params # pre.params
  /\ \A k \in {"W1", "W2", "b1", "b2"} : params[k] # pre.params[k]

\* X.W1 + b1, the input of the ReLU
PreActivation(P, X) == AddRowVec(MatMul(X, P.W1), P.b1)

\* dscores.W2^T, the gradient arriving at the hidden layer
Upstream(P, X, y) == MatMul(DScores(P, X, y), Transpose(P.W2))

LiveRows(P, X, h) == {i \in 1..Rows(X) : PreActivation(P, X)[i][h] > 0}

RECURSIVE SumOver(_, _)
SumOver(f, S) == IF S = {} THEN 0 ELSE LET i == CHOOSE i \in S : TRUE IN f[i] + SumOver(f, S \ {i})

\* C10: positions whose pre-activation is <= 0 add nothing to db1 or to dW1
\* (before reg x W1): both are sums over the rows with a positive
\* pre-activation only, so a unit that is <= 0 on every row has db1 = 0 and a
\* dW1 column equal to reg x W1's column.
C10_ReluGate ==
  (ret.op = "loss" /\ ret.kind = "pair") =>
     LET X == call.X
         N == Rows(X)
         up == Upstream(params, X, call.y.v)
     IN  \A h \in 1..H :
           /\ ret.val.grads.b1[h] =
                RoundDiv(SumOver([i \in 1..N |-> up[i][h]], LiveRows(params, X, h)), N)
           /\ \A d \in 1..D :
                ret.val.grads.W1[d][h] =
                  RoundDiv(RoundDiv(SumOver([i \in 1..N |-> X[i][d] * up[i][h]],
                                            LiveRows(params, X, h)), FP), N)
                  + Mul(call.reg, params.W1[d][h])
           /\ LiveRows(params, X, h) = {} =>
                /\ ret.val.grads.b1[h] = 0
                /\ \A d \in 1..D : ret.val.grads.W1[d][h] = Mul(call.reg, params.W1[d][h])

C10_Witness ==
  /\ ret.op = "loss"
  /\ ret.kind = "pair"
  /\ call.reg # 0
  /\ Rows(call.X) = MaxRows
  /\ \E h \in 1..H :
       /\ LiveRows(params, call.X, h) = {}
       /\ \E i \in 1..Rows(call.X) : Upstream(params, call.X, call.y.v)[i][h] # 0
       /\ \E d \in 1..D : ret.val.grads.W1[d][h] # 0
       /\ ret.val.grads.b1[h] = 0
  /\ \E h \in 1..H : LiveRows(params, call.X, h) # {} /\ ret.val.grads.b1[h] # 0

====
